---- MODULE Spec2Model ----
\* napari_ome_zarr/_reader.py: the napari reader hook of napari-ome-zarr.
\* napari_get_reader resolves a path, transform builds the deferred reader
\* function f, and f walks the node iterator once, deriving one
\* (data, metadata, layer type) triple per node that has data.
EXTENDS Integers, Sequences, FiniteSets, TLC

VARIABLES
    nodes,      \* the nodes behind the iterator handed to transform (metadata is mutable)
    pos,        \* how many nodes the iterator has yielded so far
    pc,         \* "start" (no f yet), "idle" (f exists, not running), "loop" (inside f)
    heap,       \* the list objects created by `results = list()`, by identity
    inv,        \* the running invocation of f: its results list and where it started
    outcomes,   \* one record per finished invocation of f, oldest first
    path,       \* the argument of napari_get_reader
    supported,  \* the paths parse_url resolves to a handle
    parsed,     \* the arguments parse_url has been called with, in order
    warned,     \* the messages passed to warnings.warn, in order
    reader,     \* what napari_get_reader did: "unset", "None", "f" or "IndexError"
    arg,        \* the arguments of a direct call of a helper function
    out         \* what that call produced

vars == <<nodes, pos, pc, heap, inv, outcomes, path, supported, parsed, warned,
          reader, arg, out>>

-----------------------------------------------------------------------------
\* Bounds of the model.
MaxNodes == 3       \* longest node sequence
MaxCalls == 2       \* invocations of f
MaxObjects == 2     \* objects in a properties table
MaxDescs == 2       \* transform descriptors in the level-0 list
MaxPaths == 2       \* longest list of paths

-----------------------------------------------------------------------------
\* Python values.

\* None, and a value that is not None (an optional is <<>> or <<x>>).
None == <<>>
Some(x) == <<x>>

\* The None that transform_properties appends for a missing field.
NoneValue == "None"

\* An insertion-ordered dict: a sequence of [k, v] entries with distinct keys.
EmptyDict == <<>>
DictKeys(d) == [i \in 1..Len(d) |-> d[i].k]
DictHas(d, key) == \E i \in 1..Len(d) : d[i].k = key
DictGet(d, key, default) ==
    IF DictHas(d, key)
    THEN d[CHOOSE i \in 1..Len(d) : d[i].k = key].v
    ELSE default
DictPut(d, key, value) ==
    IF DictHas(d, key)
    THEN [i \in 1..Len(d) |-> IF d[i].k = key THEN [k |-> key, v |-> value] ELSE d[i]]
    ELSE Append(d, [k |-> key, v |-> value])

\* A metadata mapping whose iteration order is never used: a function from
\* its keys; `key in m` is key \in DOMAIN m.
NoKeys == [key \in {} |-> <<>>]
SetKey(m, key, value) ==
    [x \in DOMAIN m \cup {key} |-> IF x = key THEN value ELSE m[x]]

METADATA_KEYS == <<"name", "visible", "contrast_limits", "colormap", "color", "metadata">>

-----------------------------------------------------------------------------
\* transform_properties

\* for key in props_dict.keys(): properties[key] = []
RECURSIVE CreateLists(_, _)
CreateLists(keys, properties) ==
    IF keys = <<>> THEN properties
    ELSE CreateLists(Tail(keys), DictPut(properties, Head(keys), <<>>))

\* First loop: create lists for all existing keys.
RECURSIVE FirstPass(_, _)
FirstPass(props, properties) ==
    IF props = <<>> THEN properties
    ELSE FirstPass(Tail(props), CreateLists(DictKeys(Head(props).v), properties))

\* for key in keys: properties[key].append(props_dict.get(key, None))
RECURSIVE AppendValues(_, _, _)
AppendValues(keys, props_dict, properties) ==
    IF keys = <<>> THEN properties
    ELSE AppendValues(Tail(keys), props_dict,
            DictPut(properties, Head(keys),
                    Append(DictGet(properties, Head(keys), <<>>),
                           DictGet(props_dict, Head(keys), NoneValue))))

\* Second loop: one "index" entry and one value per key, for every object.
RECURSIVE SecondPass(_, _, _)
SecondPass(props, keys, properties) ==
    IF props = <<>> THEN properties
    ELSE LET label_id == Head(props).k
             props_dict == Head(props).v
             indexed == DictPut(properties, "index",
                                Append(DictGet(properties, "index", <<>>), label_id))
         IN  SecondPass(Tail(props), keys, AppendValues(keys, props_dict, indexed))

\* props is None or Some(table); the table is an ordered dict from label id
\* to an ordered dict from field name to value.
transform_properties(props) ==
    IF props = None THEN None
    ELSE LET properties == FirstPass(props[1], EmptyDict)
             keys == DictKeys(properties)
         IN  Some(SecondPass(props[1], keys, DictPut(properties, "index", <<>>)))

-----------------------------------------------------------------------------
\* transform_scale

\* for axis, scale_val in zip(axis_indices, scale): scale_by_axis[axis] = scale_val
RECURSIVE ZipScale(_, _, _)
ZipScale(axis_indices, scale, scale_by_axis) ==
    IF axis_indices = <<>> \/ scale = <<>> THEN scale_by_axis
    ELSE ZipScale(Tail(axis_indices), Tail(scale),
                  DictPut(scale_by_axis, Head(axis_indices), Head(scale)))

\* for dim in range(len(shape)): if dim != channel_axis: append(get(dim, 1))
RECURSIVE ScaleValues(_, _, _, _)
ScaleValues(dim, ndim, channel_axis, scale_by_axis) ==
    IF dim >= ndim THEN <<>>
    ELSE (IF Some(dim) # channel_axis
          THEN <<DictGet(scale_by_axis, dim, 1)>>
          ELSE <<>>)
         \o ScaleValues(dim + 1, ndim, channel_axis, scale_by_axis)

\* A variant of the loop that keeps one scale_by_axis across the descriptors.
RECURSIVE ScaleLoopKeeping(_, _, _, _, _)
ScaleLoopKeeping(transfs, kept, metadata, channel_axis, shape) ==
    IF transfs = <<>> THEN metadata
    ELSE LET transf == Head(transfs) IN
         IF "scale" \in DOMAIN transf /\ "axisIndices" \in DOMAIN transf
         THEN LET scale_by_axis == ZipScale(transf.axisIndices, transf.scale, kept)
                  scale_values == ScaleValues(0, Len(shape), channel_axis, scale_by_axis)
              IN  ScaleLoopKeeping(Tail(transfs), scale_by_axis,
                      IF Len(scale_values) > 0
                      THEN SetKey(metadata, "scale", scale_values)
                      ELSE metadata,
                      channel_axis, shape)
         ELSE ScaleLoopKeeping(Tail(transfs), kept, metadata, channel_axis, shape)

ScaleLoopAccumulating(transfs, metadata, channel_axis, shape) ==
    ScaleLoopKeeping(transfs, EmptyDict, metadata, channel_axis, shape)

\* for transf in level_0_transforms: ...
RECURSIVE ScaleLoop(_, _, _, _)
ScaleLoop(transfs, metadata, channel_axis, shape) ==
    IF transfs = <<>> THEN metadata
    ELSE LET transf == Head(transfs) IN
         IF "scale" \in DOMAIN transf /\ "axisIndices" \in DOMAIN transf
         THEN LET scale_by_axis == ZipScale(transf.axisIndices, transf.scale, EmptyDict)
                  scale_values == ScaleValues(0, Len(shape), channel_axis, scale_by_axis)
              IN  ScaleLoop(Tail(transfs),
                      IF Len(scale_values) > 0
                      THEN SetKey(metadata, "scale", scale_values)
                      ELSE metadata,
                      channel_axis, shape)
         ELSE ScaleLoop(Tail(transfs), metadata, channel_axis, shape)

\* Returns the metadata as the call leaves it, or the error it raises.
transform_scale(node_metadata, metadata, channel_axis, shape) ==
    IF "transformations" \in DOMAIN node_metadata
    THEN IF Len(node_metadata["transformations"]) = 0
         THEN [err |-> "IndexError", metadata |-> metadata]
         ELSE [err |-> "",
               metadata |-> ScaleLoop(node_metadata["transformations"][1],
                                      metadata, channel_axis, shape)]
    ELSE [err |-> "", metadata |-> metadata]

-----------------------------------------------------------------------------
\* The body of f's loop for one node with data.

\* ch_types = [axis["type"] for axis in node.metadata["axes"]]; the index of
\* the first "channel", counted from 0, or None.
ReadAxes(node_metadata) ==
    IF "axes" \notin DOMAIN node_metadata
    THEN [err |-> "KeyError", channel_axis |-> None]
    ELSE LET axes == node_metadata["axes"] IN
         IF \E i \in 1..Len(axes) : "type" \notin DOMAIN axes[i]
         THEN [err |-> "KeyError", channel_axis |-> None]
         ELSE LET ch_types == [i \in 1..Len(axes) |-> axes[i].type]
                  first == CHOOSE i \in 1..Len(axes) :
                              /\ ch_types[i] = "channel"
                              /\ \A j \in 1..(i - 1) : ch_types[j] # "channel"
              IN  [err |-> "",
                   channel_axis |-> IF \E i \in 1..Len(axes) : ch_types[i] = "channel"
                                    THEN Some(first - 1)
                                    ELSE None]

\* A variant that takes the scale of the most recent result.
InheritScaleFromLast(metadata, results) ==
    IF /\ "scale" \notin DOMAIN metadata
       /\ Len(results) > 0
       /\ "scale" \in DOMAIN results[Len(results)][2]
    THEN SetKey(metadata, "scale", results[Len(results)][2]["scale"])
    ELSE metadata

\* if "scale" not in metadata and len(results) and "scale" in results[0][1]
InheritScale(metadata, results) ==
    IF /\ "scale" \notin DOMAIN metadata
       /\ Len(results) > 0
       /\ "scale" \in DOMAIN results[1][2]
    THEN SetKey(metadata, "scale", results[1][2]["scale"])
    ELSE metadata

\* for x in METADATA_KEYS: if x in node.metadata: metadata[x] = node.metadata[x]
RECURSIVE CopyKeys(_, _, _)
CopyKeys(keys, node_metadata, metadata) ==
    IF keys = <<>> THEN metadata
    ELSE CopyKeys(Tail(keys), node_metadata,
            IF Head(keys) \in DOMAIN node_metadata
            THEN SetKey(metadata, Head(keys), node_metadata[Head(keys)])
            ELSE metadata)

\* ... metadata[x] = node.metadata[x][0], the key left out when that raises
RECURSIVE CopyFirstItems(_, _, _)
CopyFirstItems(keys, node_metadata, metadata) ==
    IF keys = <<>> THEN metadata
    ELSE CopyFirstItems(Tail(keys), node_metadata,
            IF Head(keys) \in DOMAIN node_metadata /\ Len(node_metadata[Head(keys)]) > 0
            THEN SetKey(metadata, Head(keys), node_metadata[Head(keys)][1])
            ELSE metadata)

\* A variant that squeezes every dimension of size 1 (np.squeeze without axis).
RECURSIVE DropOnes(_)
DropOnes(level) ==
    IF level = <<>> THEN <<>>
    ELSE (IF Head(level) = 1 THEN <<>> ELSE <<Head(level)>>) \o DropOnes(Tail(level))

squeeze_every_axis(level, axis) == [err |-> "", level |-> DropOnes(level)]

\* np.squeeze(level, axis=channel_axis) on an array of shape level.
squeeze(level, axis) ==
    IF axis >= Len(level) THEN [err |-> "AxisError", level |-> level]
    ELSE IF level[axis + 1] # 1 THEN [err |-> "ValueError", level |-> level]
    ELSE [err |-> "",
          level |-> [i \in 1..(Len(level) - 1) |->
                        IF i <= axis THEN level[i] ELSE level[i + 1]]]

\* data = [np.squeeze(level, axis=channel_axis) for level in node.data]
SqueezeLevels(levels, axis) ==
    LET squeezed == [i \in 1..Len(levels) |-> squeeze(levels[i], axis)]
        failed == {i \in 1..Len(levels) : squeezed[i].err # ""}
    IN  IF failed # {}
        THEN [err |-> squeezed[CHOOSE i \in failed : \A j \in failed : i <= j].err,
              data |-> levels]
        ELSE [err |-> "", data |-> [i \in 1..Len(levels) |-> squeezed[i].level]]

\* vispy's Colormap(cm), and isinstance(cm, Colormap).
Colormap(cm) == [cls |-> "Colormap", colors |-> cm.colors]
IsColormap(cm) == cm.cls = "Colormap"

\* cms = node.metadata.get("colormap", []); cms[idx] = Colormap(cm) in place:
\* the node's metadata after the loop.
NormalizeColormaps(node_metadata) ==
    IF "colormap" \in DOMAIN node_metadata
    THEN LET cms == node_metadata["colormap"] IN
         SetKey(node_metadata, "colormap",
                [idx \in 1..Len(cms) |->
                    IF ~IsColormap(cms[idx]) THEN Colormap(cms[idx]) ELSE cms[idx]])
    ELSE node_metadata

\* properties = transform_properties(node.metadata.get("properties"))
AddProperties(node_metadata, metadata) ==
    LET properties == transform_properties(
                          IF "properties" \in DOMAIN node_metadata
                          THEN Some(node_metadata["properties"])
                          ELSE None)
    IN  IF properties # None
        THEN SetKey(metadata, "properties", properties[1])
        ELSE metadata

Raised(stage, err, node) ==
    [err |-> err, stage |-> stage, node |-> node, rv |-> <<>>]
Emitted(node, data, metadata, layer_type) ==
    [err |-> "", stage |-> "", node |-> node,
     rv |-> <<data, AddProperties(node.metadata, metadata), layer_type>>]

\* if node.load(Label): ...
LabelBranch(node, channel_axis, metadata) ==
    LET copied == CopyKeys(METADATA_KEYS, node.metadata, metadata) IN
    IF channel_axis # None
    THEN LET sq == SqueezeLevels(node.data[1], channel_axis[1]) IN
         IF sq.err # "" THEN Raised("squeeze", sq.err, node)
         ELSE Emitted(node, sq.data, copied, "labels")
    ELSE Emitted(node, node.data[1], copied, "labels")

\* else: ... (an image)
ImageBranch(node, channel_axis, metadata) ==
    LET normalized == [node EXCEPT !.metadata = NormalizeColormaps(node.metadata)] IN
    IF channel_axis # None
    THEN Emitted(normalized, node.data[1],
                 CopyKeys(METADATA_KEYS, normalized.metadata,
                          SetKey(metadata, "channel_axis", channel_axis[1])),
                 "image")
    ELSE Emitted(normalized, node.data[1],
                 CopyFirstItems(METADATA_KEYS, normalized.metadata, metadata),
                 "image")

\* The else branch of the loop body: the triple appended for the node and the
\* node as the body leaves it, or the error that escapes f.
Derive(node, results) ==
    LET data == node.data[1]
        axes == ReadAxes(node.metadata)
    IN  IF axes.err # "" THEN Raised("axes", axes.err, node)
        ELSE LET channel_axis == axes.channel_axis
                 scaled == transform_scale(node.metadata, NoKeys, channel_axis, data[1])
             IN  IF scaled.err # "" THEN Raised("transform_scale", scaled.err, node)
                 ELSE LET metadata == InheritScale(scaled.metadata, results) IN
                      IF node.label
                      THEN LabelBranch(node, channel_axis, metadata)
                      ELSE ImageBranch(node, channel_axis, metadata)

\* if data is None or len(data) < 1
IsNonData(node) == IF node.data = None THEN TRUE ELSE Len(node.data[1]) < 1

-----------------------------------------------------------------------------
\* The nodes the reader yields.

Axes(types) == [i \in 1..Len(types) |-> [type |-> types[i]]]
AxesCYX == Axes(<<"channel", "space", "space">>)
AxesYX == Axes(<<"space", "space">>)
AxesZYX == Axes(<<"space", "space", "space">>)

Raw(colors) == [cls |-> "list", colors |-> colors]
Wrapped(colors) == [cls |-> "Colormap", colors |-> colors]

\* transformations: one list of descriptors per level.
ScaleYX == [axisIndices |-> <<1, 2>>, scale |-> <<2, 3>>]
ScaleXY == [axisIndices |-> <<0, 1>>, scale |-> <<3, 2>>]
Translation == [translation |-> <<5, 5>>]

Table == <<[k |-> "1", v |-> <<[k |-> "roiId", v |-> "10"]>>],
           [k |-> "2", v |-> <<[k |-> "roiId", v |-> "20"],
                               [k |-> "shapeId", v |-> "99"]>>]>>

Node(data, metadata, label) == [data |-> data, metadata |-> metadata, label |-> label]

\* Nodes without data (a plate or a well), skipped by f.
NonDataNodes ==
    { Node(None, [axes |-> AxesYX], FALSE),
      Node(Some(<<>>), [axes |-> AxesYX], FALSE) }

ImageNodes ==
    { \* one channel of size 1, two levels, its own scale
      Node(Some(<<<<1, 2, 2>>, <<1, 1, 1>>>>),
           [axes |-> AxesCYX, transformations |-> <<<<ScaleYX>>, <<ScaleXY>>>>,
            colormap |-> <<Raw("red")>>, name |-> <<"a">>], FALSE),
      \* two channels
      Node(Some(<<<<2, 2, 2>>>>),
           [axes |-> AxesCYX, transformations |-> <<<<Translation, ScaleYX>>>>,
            colormap |-> <<Raw("red"), Wrapped("green")>>, name |-> <<"a", "b">>], FALSE),
      \* no channel axis, its own scale, an empty contrast_limits list
      Node(Some(<<<<2, 2>>>>),
           [axes |-> AxesYX, transformations |-> <<<<ScaleXY>>>>,
            colormap |-> <<Raw("gray")>>, contrast_limits |-> <<>>], FALSE),
      \* no transformations
      Node(Some(<<<<2, 2>>>>), [axes |-> AxesYX, name |-> <<"n">>], FALSE),
      \* transformations without a scale
      Node(Some(<<<<2, 2>>>>),
           [axes |-> AxesYX, transformations |-> <<<<Translation>>>>,
            colormap |-> <<Wrapped("gray")>>], FALSE) }

LabelNodes ==
    { \* a channel axis of size 1, two levels, a properties table
      Node(Some(<<<<1, 2, 2>>, <<1, 1, 1>>>>),
           [axes |-> AxesCYX, name |-> <<"l">>, properties |-> Table], TRUE),
      \* no channel axis, a raw colormap
      Node(Some(<<<<2, 2>>>>),
           [axes |-> AxesYX, colormap |-> <<Raw("red")>>], TRUE),
      \* three space axes
      Node(Some(<<<<2, 2, 2>>>>), [axes |-> AxesZYX], TRUE),
      \* its own scale, two dimensions of size 1
      Node(Some(<<<<1, 1, 2>>>>),
           [axes |-> AxesCYX, transformations |-> <<<<ScaleYX>>>>], TRUE) }

\* Nodes on which the loop body raises.
RaisingNodes ==
    { Node(Some(<<<<2, 2>>>>), [name |-> <<"n">>], FALSE),
      Node(Some(<<<<2, 2>>>>), [axes |-> <<[name |-> "y"], [name |-> "x"]>>], FALSE),
      Node(Some(<<<<2, 2>>>>), [axes |-> AxesYX, transformations |-> <<>>], FALSE),
      Node(Some(<<<<2, 2, 2>>>>), [axes |-> AxesCYX], TRUE) }

NodeSet == NonDataNodes \cup ImageNodes \cup LabelNodes \cup RaisingNodes

SeqsUpTo(S, n) == UNION {[1..m -> S] : m \in 0..n}

-----------------------------------------------------------------------------
\* napari_get_reader

Paths == {"a.zarr", "b.zarr", "c.txt"}
PathStr(p) == [kind |-> "str", str |-> p]
PathList(ps) == [kind |-> "list", items |-> ps]
PathInputs == {PathStr(p) : p \in Paths} \cup {PathList(ps) : ps \in SeqsUpTo(Paths, MaxPaths)}

\* parse_url(path): a handle, or None.
parse_url(p) == IF p \in supported THEN Some(p) ELSE None

\* A variant that takes the last path of the list.
LastPath(items) == items[Len(items)]

\* path = path[0]
FirstPath(items) == items[1]

\* isinstance(path, list) with an empty list: path[0] raises.
GetReaderRaises ==
    /\ reader = "unset"
    /\ path.kind = "list" /\ Len(path.items) = 0
    /\ reader' = "IndexError"
    /\ UNCHANGED <<nodes, pos, pc, heap, inv, outcomes, path, supported, parsed,
                   warned, arg, out>>

ChosenPath == IF path.kind = "list" THEN FirstPath(path.items) ELSE path.str
Warnings ==
    IF path.kind = "list" /\ Len(path.items) > 1
    THEN <<"more than one path is not currently supported">>
    ELSE <<>>

\* parse_url returns None: the path is ignored.
GetReaderIgnores ==
    /\ reader = "unset"
    /\ path.kind = "list" => Len(path.items) > 0
    /\ parse_url(ChosenPath) = None
    /\ warned' = warned \o Warnings
    /\ parsed' = Append(parsed, ChosenPath)
    /\ reader' = "None"
    /\ UNCHANGED <<nodes, pos, pc, heap, inv, outcomes, path, supported, arg, out>>

\* return transform(reader()): f is built over the node iterator, which is
\* not advanced.
GetReaderTransforms ==
    /\ reader = "unset"
    /\ path.kind = "list" => Len(path.items) > 0
    /\ parse_url(ChosenPath) # None
    /\ warned' = warned \o Warnings
    /\ parsed' = Append(parsed, ChosenPath)
    /\ reader' = "f"
    /\ pc' = "idle"
    /\ UNCHANGED <<nodes, pos, heap, inv, outcomes, path, supported, arg, out>>

-----------------------------------------------------------------------------
\* f

\* A variant in which the list is created once and shared by the invocations.
SharedResults(h) ==
    IF h = <<>> THEN [heap |-> <<<<>>>>, id |-> 1] ELSE [heap |-> h, id |-> Len(h)]

\* results = list(): a new list object on every invocation.
NewResults(h) == [heap |-> Append(h, <<>>), id |-> Len(h) + 1]

\* A variant that puts the triple in front.
PrependResult(results, rv) == <<rv>> \o results

\* results.append(rv)
AppendResult(results, rv) == Append(results, rv)

NoInvocation == [list |-> 0, from |-> 0]

\* The host invokes f.
Call ==
    /\ pc = "idle"
    /\ Len(outcomes) < MaxCalls
    /\ LET new == NewResults(heap) IN
         /\ heap' = new.heap
         /\ inv' = [list |-> new.id, from |-> pos]
    /\ pc' = "loop"
    /\ UNCHANGED <<nodes, pos, outcomes, path, supported, parsed, warned, reader, arg, out>>

\* The iterator yields a node without data: skipped.
LoopSkip ==
    /\ pc = "loop"
    /\ pos < Len(nodes)
    /\ IsNonData(nodes[pos + 1])
    /\ pos' = pos + 1
    /\ UNCHANGED <<nodes, pc, heap, inv, outcomes, path, supported, parsed, warned,
                   reader, arg, out>>

\* The iterator yields a node with data and the body appends its triple.
LoopTransform ==
    /\ pc = "loop"
    /\ pos < Len(nodes)
    /\ ~IsNonData(nodes[pos + 1])
    /\ LET d == Derive(nodes[pos + 1], heap[inv.list]) IN
         /\ d.err = ""
         /\ nodes' = [nodes EXCEPT ![pos + 1] = d.node]
         /\ heap' = [heap EXCEPT ![inv.list] = AppendResult(@, d.rv)]
    /\ pos' = pos + 1
    /\ UNCHANGED <<pc, inv, outcomes, path, supported, parsed, warned, reader, arg, out>>

\* The iterator yields a node with data and the body raises: f is left.
LoopRaise ==
    /\ pc = "loop"
    /\ pos < Len(nodes)
    /\ ~IsNonData(nodes[pos + 1])
    /\ LET d == Derive(nodes[pos + 1], heap[inv.list]) IN
         /\ d.err # ""
         /\ nodes' = [nodes EXCEPT ![pos + 1] = d.node]
         /\ outcomes' = Append(outcomes,
                [kind |-> "raise", stage |-> d.stage, err |-> d.err,
                 list |-> inv.list, value |-> heap[inv.list],
                 from |-> inv.from, to |-> pos + 1])
    /\ pos' = pos + 1
    /\ pc' = "idle"
    /\ inv' = NoInvocation
    /\ UNCHANGED <<heap, path, supported, parsed, warned, reader, arg, out>>

\* The iterator is exhausted: return results.
Return ==
    /\ pc = "loop"
    /\ pos = Len(nodes)
    /\ outcomes' = Append(outcomes,
            [kind |-> "return", stage |-> "", err |-> "",
             list |-> inv.list, value |-> heap[inv.list],
             from |-> inv.from, to |-> pos])
    /\ pc' = "idle"
    /\ inv' = NoInvocation
    /\ UNCHANGED <<nodes, pos, heap, path, supported, parsed, warned, reader, arg, out>>

NoCall == [fn |-> "none"]

Next ==
    \/ GetReaderRaises
    \/ GetReaderIgnores
    \/ GetReaderTransforms
    \/ Call
    \/ LoopSkip
    \/ LoopTransform
    \/ LoopRaise
    \/ Return

InitControl ==
    /\ pos = 0
    /\ pc = "start"
    /\ heap = <<>>
    /\ inv = NoInvocation
    /\ outcomes = <<>>
    /\ parsed = <<>>
    /\ warned = <<>>
    /\ reader = "unset"
    /\ out = NoCall

\* Any node sequence, read through a path that resolves (or one that does
\* not, or an empty list of paths).
Init ==
    /\ InitControl
    /\ arg = NoCall
    /\ nodes \in SeqsUpTo(NodeSet, MaxNodes)
    /\ supported = {"a.zarr", "b.zarr"}
    /\ path \in {PathStr("a.zarr"), PathStr("c.txt"), PathList(<<>>)}

Spec == Init /\ [][Next]_vars

\* Any path argument and any set of resolvable paths, over a few node sequences.
ReaderNodes ==
    { <<>>,
      <<CHOOSE n \in NonDataNodes : n.data = None,
        CHOOSE n \in ImageNodes : "contrast_limits" \in DOMAIN n.metadata,
        CHOOSE n \in RaisingNodes : "transformations" \in DOMAIN n.metadata>> }

InitReader ==
    /\ InitControl
    /\ arg = NoCall
    /\ nodes \in ReaderNodes
    /\ supported \in SUBSET Paths
    /\ path \in PathInputs

SpecReader == InitReader /\ [][Next]_vars

-----------------------------------------------------------------------------
\* transform_properties called on its own.

Ids == {"1", "2", "3"}
Fields == {"roiId", "index"}
Values == {"10", "20"}

\* The ordered dicts with distinct keys from K, values from V and at most n
\* entries.
RECURSIVE Dicts(_, _, _)
Dicts(K, V, n) ==
    IF n = 0 THEN {EmptyDict}
    ELSE LET shorter == Dicts(K, V, n - 1) IN
         shorter \cup
         { Append(d[1], [k |-> d[2], v |-> value]) :
             d \in {x \in shorter \X K : Len(x[1]) = n - 1 /\ ~DictHas(x[1], x[2])},
             value \in V }

PropsDicts == Dicts(Fields, Values, 2)
PropsTables == Dicts(Ids, PropsDicts, MaxObjects)

InitProperties ==
    /\ InitControl
    /\ nodes = <<>>
    /\ supported = {}
    /\ path = PathList(<<>>)
    /\ arg \in {[fn |-> "transform_properties", props |-> None]} \cup
               {[fn |-> "transform_properties", props |-> Some(t)] : t \in PropsTables}

CallProperties ==
    /\ arg.fn = "transform_properties"
    /\ out = NoCall
    /\ out' = [fn |-> "transform_properties", ret |-> transform_properties(arg.props)]
    /\ UNCHANGED <<nodes, pos, pc, heap, inv, outcomes, path, supported, parsed,
                   warned, reader, arg>>

NextProperties == CallProperties

SpecProperties == InitProperties /\ [][NextProperties]_vars

-----------------------------------------------------------------------------
\* transform_scale called on its own, with the empty metadata f passes.

AxisLists == {<<0>>, <<1>>, <<2>>, <<0, 1>>, <<1, 2>>, <<1, 1>>}
ScaleLists == {<<2>>, <<2, 3>>, <<4, 5>>}
Descriptors ==
    {[axisIndices |-> a, scale |-> sc] : a \in AxisLists, sc \in ScaleLists}
    \cup {[scale |-> <<2, 3>>], [axisIndices |-> <<0, 1>>], Translation}
Shapes == {<<2>>, <<2, 2>>, <<1, 2, 2>>}
ChannelAxes == {None, Some(0), Some(1)}

ScaleMetadata ==
    {[axes |-> AxesYX], [axes |-> AxesYX, transformations |-> <<>>]}
    \cup {[axes |-> AxesYX, transformations |-> <<level_0>>] :
            level_0 \in SeqsUpTo(Descriptors, MaxDescs)}

InitScale ==
    /\ InitControl
    /\ nodes = <<>>
    /\ supported = {}
    /\ path = PathList(<<>>)
    /\ arg \in {[fn |-> "transform_scale", node_metadata |-> m,
                 channel_axis |-> c, shape |-> sh] :
                    m \in ScaleMetadata, c \in ChannelAxes, sh \in Shapes}

ScaleCall == transform_scale(arg.node_metadata, NoKeys, arg.channel_axis, arg.shape)

CallScale ==
    /\ arg.fn = "transform_scale"
    /\ out = NoCall
    /\ ScaleCall.err = ""
    /\ out' = [fn |-> "transform_scale", err |-> "", metadata |-> ScaleCall.metadata]
    /\ UNCHANGED <<nodes, pos, pc, heap, inv, outcomes, path, supported, parsed,
                   warned, reader, arg>>

CallScaleRaises ==
    /\ arg.fn = "transform_scale"
    /\ out = NoCall
    /\ ScaleCall.err # ""
    /\ out' = [fn |-> "transform_scale", err |-> ScaleCall.err, metadata |-> NoKeys]
    /\ UNCHANGED <<nodes, pos, pc, heap, inv, outcomes, path, supported, parsed,
                   warned, reader, arg>>

NextScale == CallScale \/ CallScaleRaises

SpecScale == InitScale /\ [][NextScale]_vars

-----------------------------------------------------------------------------
\* Properties.

HasData(node) == IF node.data = None THEN FALSE ELSE Len(node.data[1]) > 0

\* The positions in nodes[from+1 .. to] of the nodes with data, ascending.
RECURSIVE DataNodes(_, _)
DataNodes(from, to) ==
    IF from >= to THEN <<>>
    ELSE (IF HasData(nodes[from + 1]) THEN <<from + 1>> ELSE <<>>)
         \o DataNodes(from + 1, to)

\* P(res, j, node) for every triple res[j] that an invocation of f has
\* appended so far, node being the j-th node with data that it was handed.
EveryEmitted(P(_, _, _)) ==
    /\ \A c \in DOMAIN outcomes :
         LET res == outcomes[c].value
             idx == DataNodes(outcomes[c].from, outcomes[c].to)
         IN  \A j \in 1..Len(res) : j <= Len(idx) /\ P(res, j, nodes[idx[j]])
    /\ pc = "loop" =>
         LET res == heap[inv.list]
             idx == DataNodes(inv.from, pos)
         IN  \A j \in 1..Len(res) : j <= Len(idx) /\ P(res, j, nodes[idx[j]])

SomeEmitted(P(_, _, _)) ==
    \E c \in DOMAIN outcomes :
         LET res == outcomes[c].value
             idx == DataNodes(outcomes[c].from, outcomes[c].to)
         IN  \E j \in 1..Len(res) : j <= Len(idx) /\ P(res, j, nodes[idx[j]])

HasChannel(node) ==
    \E i \in 1..Len(node.metadata["axes"]) : node.metadata["axes"][i].type = "channel"
ChannelOf(node) ==
    (CHOOSE i \in 1..Len(node.metadata["axes"]) :
        /\ node.metadata["axes"][i].type = "channel"
        /\ \A j \in 1..(i - 1) : node.metadata["axes"][j].type # "channel") - 1
NDim(node) == Len(node.data[1][1])

\* shape without its dimension d (counted from 0).
Without(shape, d) ==
    [i \in 1..(Len(shape) - 1) |-> IF i <= d THEN shape[i] ELSE shape[i + 1]]

\* ---- C1 ----
\* C1: an invocation of f that returns has appended exactly one triple per
\* node with data among the nodes it consumed, in their order (the triple of
\* the j-th such node is the j-th triple: it has that node's layer kind,
\* number of levels and, for an image, data), and none for a node whose data
\* is None or has no levels.
C1_Matches(res, j, node) ==
    /\ res[j][3] = (IF node.label THEN "labels" ELSE "image")
    /\ Len(res[j][1]) = Len(node.data[1])
    /\ ~node.label => res[j][1] = node.data[1]

C1_OneTriplePerDataNode ==
    \A c \in DOMAIN outcomes :
        outcomes[c].kind = "return" =>
            LET res == outcomes[c].value
                idx == DataNodes(outcomes[c].from, outcomes[c].to)
            IN  /\ Len(res) = Len(idx)
                /\ \A j \in 1..Len(res) : C1_Matches(res, j, nodes[idx[j]])

\* A returned list of two triples of different kinds, one node skipped.
C1_Witness ==
    \E c \in DOMAIN outcomes :
        /\ outcomes[c].kind = "return"
        /\ Len(outcomes[c].value) = 2
        /\ outcomes[c].value[1][3] # outcomes[c].value[2][3]
        /\ outcomes[c].to - outcomes[c].from = 3

\* ---- C3 ----
\* C3 (as claimed): in every emitted triple whose metadata has "scale", its
\* length is the number of dimensions of the node's level-0 data, minus 1 if
\* the node has a channel axis.
C3_Length(res, j, node) ==
    "scale" \in DOMAIN res[j][2] =>
        Len(res[j][2]["scale"]) = NDim(node) - (IF HasChannel(node) THEN 1 ELSE 0)

C3_ScaleLengthMatchesData == EveryEmitted(C3_Length)

\* ---- C4 ----
\* C4: a node that extracted a scale keeps it; a node that extracted none has
\* the scale of the first triple of the pass when a triple precedes it and
\* that first triple has one, and no "scale" key otherwise.
OwnScale(node) ==
    transform_scale(node.metadata, NoKeys, ReadAxes(node.metadata).channel_axis,
                    node.data[1][1]).metadata

C4_Inherits(res, j, node) ==
    IF "scale" \in DOMAIN OwnScale(node)
    THEN "scale" \in DOMAIN res[j][2] /\ res[j][2]["scale"] = OwnScale(node)["scale"]
    ELSE IF j > 1 /\ "scale" \in DOMAIN res[1][2]
    THEN "scale" \in DOMAIN res[j][2] /\ res[j][2]["scale"] = res[1][2]["scale"]
    ELSE "scale" \notin DOMAIN res[j][2]

C4_InheritsFromFirstOnly == EveryEmitted(C4_Inherits)

\* Three triples: the first without scale, the second with its own, the third
\* from a node that extracted none, which therefore has none.
C4_Witness ==
    \E c \in DOMAIN outcomes :
        LET res == outcomes[c].value
            idx == DataNodes(outcomes[c].from, outcomes[c].to)
        IN  /\ outcomes[c].kind = "return"
            /\ Len(res) = 3
            /\ "scale" \notin DOMAIN res[1][2]
            /\ "scale" \in DOMAIN res[2][2]
            /\ "scale" \notin DOMAIN OwnScale(nodes[idx[3]])

\* ---- C5 ----
\* C5 (as claimed): an error that escapes f was raised while reading the
\* node's axes.
C5_OnlyAxesErrorsEscape ==
    \A c \in DOMAIN outcomes :
        outcomes[c].kind = "raise" => outcomes[c].stage = "axes"

\* ---- C6 ----
\* C6: the triple of a label node that declares a channel axis is a "labels"
\* triple whose every level is the node's level without the channel
\* dimension, the other dimensions in order; its metadata has no
\* "channel_axis"; the node's levels still have the channel dimension.
C6_Squeezed(res, j, node) ==
    (node.label /\ HasChannel(node)) =>
        /\ res[j][3] = "labels"
        /\ Len(res[j][1]) = Len(node.data[1])
        /\ \A l \in 1..Len(res[j][1]) :
              /\ Len(res[j][1][l]) = Len(node.data[1][l]) - 1
              /\ res[j][1][l] = Without(node.data[1][l], ChannelOf(node))
        /\ "channel_axis" \notin DOMAIN res[j][2]

C6_LabelsLoseChannelAxis == EveryEmitted(C6_Squeezed)

C6_IsSqueezedLabel(res, j, node) ==
    node.label /\ HasChannel(node) /\ Len(res[j][1]) = 2 /\ res[j][3] = "labels"

C6_Witness == SomeEmitted(C6_IsSqueezedLabel)

\* ---- C8 ----
\* C8: building f consumes no node; an invocation that returns has consumed
\* the iterator to its end; the invocation after one that returned returns too,
\* an empty list that is another object than the earlier list, which still
\* holds what it held when it was returned.
C8_SecondCallIsEmpty ==
    /\ (pc = "idle" /\ outcomes = <<>>) => pos = 0
    /\ \A c \in DOMAIN outcomes :
          outcomes[c].kind = "return" =>
              /\ outcomes[c].to = Len(nodes)
              /\ heap[outcomes[c].list] = outcomes[c].value
              /\ (c + 1) \in DOMAIN outcomes =>
                    /\ outcomes[c + 1].kind = "return"
                    /\ outcomes[c + 1].value = <<>>
                    /\ outcomes[c + 1].list # outcomes[c].list

C8_Witness ==
    /\ Len(outcomes) >= 2
    /\ outcomes[1].kind = "return"
    /\ Len(outcomes[1].value) >= 2
    /\ outcomes[2].kind = "return"

\* ---- C10 ----
\* C10 (as claimed): no step of a pass changes the metadata of any node.
C10_NodeMetadataUnchanged ==
    [][\A i \in DOMAIN nodes : nodes'[i].metadata = nodes[i].metadata]_vars

\* ---- C7 ----
\* C7: once napari_get_reader has returned, parse_url has been called once,
\* with the path itself or with the first element of the list; a warning was
\* issued exactly for a list of more than one element; the result is None
\* exactly when that path resolves to no handle, and otherwise f, built over
\* a node iterator that has not been advanced.
C7_Resolved(first) ==
    /\ parsed = <<first>>
    /\ (path.kind = "list" /\ Len(path.items) > 1) <=> (Len(warned) = 1)
    /\ (reader = "None") <=> (parse_url(first) = None)
    /\ (reader # "None") => (reader = "f" /\ pc # "start")
    /\ (reader = "None") => pc = "start"
    /\ (pc = "idle" /\ outcomes = <<>>) => pos = 0

C7_FirstPathOnly ==
    (reader \in {"None", "f"}) =>
        IF path.kind = "list"
        THEN Len(path.items) > 0 /\ C7_Resolved(path.items[1])
        ELSE C7_Resolved(path.str)

\* A list whose first path resolves and whose second does not, read.
C7_Witness ==
    /\ reader = "f"
    /\ path.kind = "list"
    /\ Len(path.items) = 2
    /\ parse_url(path.items[1]) # None
    /\ parse_url(path.items[2]) = None
    /\ Len(outcomes) > 0

\* ---- C2 ----
\* C2 (as claimed): the pivot's "index" list is the object ids in table
\* order, and every field of any object is a key whose list is as long as
\* "index" and holds, at position i, object i's value for the field, or None
\* when the object lacks it.
C2_PivotAligned ==
    (out.fn = "transform_properties" /\ arg.props # None) =>
        LET table == arg.props[1]
            pivot == out.ret[1]
            index == DictGet(pivot, "index", <<>>)
        IN  /\ DictHas(pivot, "index")
            /\ index = DictKeys(table)
            /\ \A i \in 1..Len(table) : \A f \in 1..Len(table[i].v) :
                  LET key == table[i].v[f].k
                      column == DictGet(pivot, key, <<>>)
                  IN  /\ DictHas(pivot, key)
                      /\ Len(column) = Len(index)
                      /\ Len(column) = Len(table)
                      /\ \A n \in 1..Len(table) :
                            column[n] = DictGet(table[n].v, key, NoneValue)

\* ---- C9 ----
Qualifying(level_0) ==
    {i \in 1..Len(level_0) :
        "scale" \in DOMAIN level_0[i] /\ "axisIndices" \in DOMAIN level_0[i]}
Largest(S) == CHOOSE x \in S : \A y \in S : y <= x
\* The positions at which zip pairs an axis index with a factor.
Paired(transf) ==
    {i \in 1..Len(transf.axisIndices) : i <= Len(transf.scale)}
PairsDim(transf, d) == \E i \in Paired(transf) : transf.axisIndices[i] = d
FactorFor(transf, d) ==
    transf.scale[Largest({i \in Paired(transf) : transf.axisIndices[i] = d})]
\* The dimensions of the data other than the channel axis, in order.
NonChannelDims(shape, channel_axis) ==
    SelectSeq([i \in 1..Len(shape) |-> i - 1], LAMBDA d : Some(d) # channel_axis)

C9_Applies ==
    /\ out.fn = "transform_scale"
    /\ out.err = ""
    /\ "transformations" \in DOMAIN arg.node_metadata
    /\ Cardinality(Qualifying(arg.node_metadata["transformations"][1])) >= 2

\* C9 (as claimed): with several descriptors carrying scale and axisIndices,
\* the entry for a non-channel dimension d is the factor paired with d by the
\* last descriptor that pairs d, and 1 only if no descriptor pairs d.
C9_LastWinsPerDimension ==
    C9_Applies =>
        LET level_0 == arg.node_metadata["transformations"][1]
            dims == NonChannelDims(arg.shape, arg.channel_axis)
        IN  dims # <<>> =>
              /\ "scale" \in DOMAIN out.metadata
              /\ Len(out.metadata["scale"]) = Len(dims)
              /\ \A n \in 1..Len(dims) :
                    LET users == {i \in Qualifying(level_0) : PairsDim(level_0[i], dims[n])}
                    IN  out.metadata["scale"][n] =
                            IF users = {} THEN 1
                            ELSE FactorFor(level_0[Largest(users)], dims[n])

\* C9 (amended): with several descriptors carrying scale and axisIndices, the
\* last of them alone decides: the entry for a non-channel dimension d is the
\* factor that descriptor pairs with d, and 1 if it pairs none with d,
\* whatever the earlier descriptors hold.
C9_LastDescriptorAlone ==
    C9_Applies =>
        LET level_0 == arg.node_metadata["transformations"][1]
            last == level_0[Largest(Qualifying(level_0))]
            dims == NonChannelDims(arg.shape, arg.channel_axis)
        IN  IF dims = <<>> THEN "scale" \notin DOMAIN out.metadata
            ELSE /\ "scale" \in DOMAIN out.metadata
                 /\ Len(out.metadata["scale"]) = Len(dims)
                 /\ \A n \in 1..Len(dims) :
                       out.metadata["scale"][n] =
                           IF PairsDim(last, dims[n]) THEN FactorFor(last, dims[n]) ELSE 1

\* Two such descriptors, the earlier pairing a non-channel dimension that the
\* last does not pair, and a scale stored.
C9_Witness ==
    /\ C9_Applies
    /\ "scale" \in DOMAIN out.metadata
    /\ LET level_0 == arg.node_metadata["transformations"][1]
           q == Qualifying(level_0)
           dims == NonChannelDims(arg.shape, arg.channel_axis)
       IN  \E n \in 1..Len(dims) : \E i \in q :
              /\ i < Largest(q)
              /\ PairsDim(level_0[i], dims[n])
              /\ ~PairsDim(level_0[Largest(q)], dims[n])
              /\ FactorFor(level_0[i], dims[n]) # 1

====
